---- MODULE Spec2Model ----
(***************************************************************************)
(* A model of the framebuffer graphics library of src/src/lib.rs: the      *)
(* process-wide Display (FramebufferInfo + back buffer), the physical      *)
(* framebuffer memory, and every public drawing function.                  *)
(*                                                                         *)
(* Each public function is one action.  A function body is translated to   *)
(* the sequence of commands it executes, in program order (a plot through  *)
(* Display::set_pixel, a read-blend-write of draw_shadow, or a panic),     *)
(* and Exec runs that sequence on the Display up to the first panic.       *)
(*                                                                         *)
(* Integers: pixel words are u32.  TLC's integers are 32-bit signed, so    *)
(* the words of the model range over 0 .. 2^31-1.  usize arithmetic that   *)
(* can go below zero is modelled by USIZE wrap-around or a panic,          *)
(* according to the build's overflow checks.                               *)
(***************************************************************************)
EXTENDS Integers, Sequences, FiniteSets, TLC

VARIABLES
    boot,             \* the boot protocol's framebuffer response (FRAMEBUFFER_REQUEST)
    overflow_checks,  \* the build: TRUE = arithmetic overflow panics, FALSE = it wraps
    display,          \* DISPLAY: Option<Display>
    phys,             \* the physical framebuffer memory behind fb.ptr, pitch*height words
    status,           \* "running", or the reason execution aborted
    call,             \* the last public function called, its arguments, what it returned
    budget            \* calls left in this run

vars == <<boot, overflow_checks, display, phys, status, call, budget>>

----------------------------------------------------------------------------
(* Bounds of the model *)

\* canvas width; the canvas height ranges over MaxDim-1 .. MaxDim
MaxDim == 3
\* padding words per scanline of the physical framebuffer: 0 .. MaxPad
MaxPad == 1
\* calls per run
MaxOps == 3
\* calls per run of the single-operation specifications
MaxShapeOps == 2

\* iterations granted to a `loop`/`while` before the model reports it hung
LoopFuel == 4 * (MaxDim + 3)

\* usize wraps modulo 2^64 in the program; every in-range quantity of the model
\* is far below 2^30, so a wrapped value is beyond every canvas either way.
USIZE == 2 ^ 30

\* colors::BLACK and colors::WHITE
BLACK == 0
WHITE == 16777215

----------------------------------------------------------------------------
(* u32 bit operations *)

\* v >> n
Shr(v, n) == v \div (2 ^ n)

\* v & 0xFF
Low8(v) == v % 256

\* v << n; the program only shifts channel values (at most 255) by 8 or 16
Shl(v, n) == v * (2 ^ n)

RECURSIVE BitOr(_, _)
\* a | b
BitOr(a, b) ==
    IF a = 0 THEN b
    ELSE IF b = 0 THEN a
    ELSE (IF a % 2 = 1 \/ b % 2 = 1 THEN 1 ELSE 0) + 2 * BitOr(a \div 2, b \div 2)

Max(a, b) == IF a >= b THEN a ELSE b
Abs(a) == IF a >= 0 THEN a ELSE -a

\* pub fn rgb(r: u8, g: u8, b: u8) -> u32
rgb(r, g, b) == BitOr(BitOr(Shl(r, 16), Shl(g, 8)), b)

----------------------------------------------------------------------------
(* DisplayCell, Display, FramebufferInfo *)

NoFb == [width |-> 0, height |-> 0, pitch |-> 0]

\* DisplayCell::new(): inner = None
DisplayCell_new == [some |-> FALSE, fb |-> NoFb, back_buffer |-> <<>>]

\* FramebufferInfo::get(): unwrap()s the response and its first framebuffer;
\* pitch is converted from bytes to words.
FramebufferInfo_get(b) ==
    IF b.present
    THEN [ok |-> TRUE,
          fb |-> [width |-> b.width, height |-> b.height, pitch |-> b.pitch \div 4]]
    ELSE [ok |-> FALSE, fb |-> NoFb]

\* Display::init sizing the back buffer by the scanline stride
Display_initWrongSize(fb) ==
    [some |-> TRUE, fb |-> fb, back_buffer |-> [i \in 1 .. fb.pitch * fb.height |-> 0]]

\* Display::init(): size = fb.width * fb.height; vec![0u32; size]; DISPLAY.set(..)
Display_init(fb) ==
    [some |-> TRUE, fb |-> fb, back_buffer |-> [i \in 1 .. fb.width * fb.height |-> 0]]

\* Display::set_pixel indexing the back buffer with the framebuffer's stride
Display_set_pixelPitch(d, x, y, color) ==
    IF x < d.fb.width /\ y < d.fb.height /\ y * d.fb.pitch + x + 1 <= Len(d.back_buffer)
    THEN [d EXCEPT !.back_buffer[y * d.fb.pitch + x + 1] = color]
    ELSE d

\* Display::set_pixel(&mut self, x, y, color)
Display_set_pixel(d, x, y, color) ==
    IF x < d.fb.width /\ y < d.fb.height
    THEN [d EXCEPT !.back_buffer[y * d.fb.width + x + 1] = color]
    ELSE d

\* Display::get_pixel(&self, x, y) -> u32
Display_get_pixel(d, x, y) ==
    IF x < d.fb.width /\ y < d.fb.height
    THEN d.back_buffer[y * d.fb.width + x + 1]
    ELSE 0

\* Display::swap_buffers(): copy_nonoverlapping(back_buffer, fb.ptr, back_buffer.len())
Display_swap_buffers(d, mem) ==
    [i \in 1 .. Len(mem) |-> IF i <= Len(d.back_buffer) THEN d.back_buffer[i] ELSE mem[i]]

\* Display::clear(): back_buffer.fill(color)
Display_clear(d, color) ==
    [d EXCEPT !.back_buffer = [i \in 1 .. Len(d.back_buffer) |-> color]]

\* FramebufferInfo::set_pixel(&self, x, y, color): a write to physical memory
FramebufferInfo_set_pixel(fb, mem, x, y, color) ==
    IF x < fb.width /\ y < fb.height
    THEN [mem EXCEPT ![y * fb.pitch + x + 1] = color]
    ELSE mem

\* blend_colors dividing by 256 (a shift) where the code divides by 255
blend_colorsDiv256(bg, fg, alpha) ==
    LET inv_alpha == 255 - alpha
        r == (Low8(Shr(bg, 16)) * inv_alpha + Low8(Shr(fg, 16)) * alpha) \div 256
        g == (Low8(Shr(bg, 8)) * inv_alpha + Low8(Shr(fg, 8)) * alpha) \div 256
        b == (Low8(bg) * inv_alpha + Low8(fg) * alpha) \div 256
    IN  BitOr(BitOr(Shl(r, 16), Shl(g, 8)), b)

\* pub fn blend_colors(bg: u32, fg: u32, alpha: u8) -> u32
blend_colors(bg, fg, alpha) ==
    LET inv_alpha == 255 - alpha
        bg_r == Low8(Shr(bg, 16))
        bg_g == Low8(Shr(bg, 8))
        bg_b == Low8(bg)
        fg_r == Low8(Shr(fg, 16))
        fg_g == Low8(Shr(fg, 8))
        fg_b == Low8(fg)
        r == (bg_r * inv_alpha + fg_r * alpha) \div 255
        g == (bg_g * inv_alpha + fg_g * alpha) \div 255
        b == (bg_b * inv_alpha + fg_b * alpha) \div 255
    IN  BitOr(BitOr(Shl(r, 16), Shl(g, 8)), b)

----------------------------------------------------------------------------
(* Commands and their execution *)

Plot(x, y, color) == [k |-> "plot", x |-> x, y |-> y, v |-> color]
\* draw_shadow's body for one pixel: bounds test, get_pixel, blend, set_pixel
Shade(x, y, alpha) == [k |-> "shade", x |-> x, y |-> y, v |-> alpha]
Panic(why) == [k |-> why, x |-> 0, y |-> 0, v |-> 0]

Step(d, c) ==
    IF c.k = "plot" THEN Display_set_pixel(d, c.x, c.y, c.v)
    ELSE IF c.x < d.fb.width /\ c.y < d.fb.height
         THEN Display_set_pixel(d, c.x, c.y,
                                blend_colors(Display_get_pixel(d, c.x, c.y), 0, c.v))
         ELSE d

RECURSIVE Exec(_, _, _)
\* runs cmds[i..] on d; stops at the first panic
Exec(d, cmds, i) ==
    IF i > Len(cmds) THEN [d |-> d, status |-> "running"]
    ELSE IF cmds[i].k \notin {"plot", "shade"} THEN [d |-> d, status |-> cmds[i].k]
    ELSE Exec(Step(d, cmds[i]), cmds, i + 1)

RECURSIVE Flatten(_, _)
\* the concatenation of ss[i..]
Flatten(ss, i) == IF i > Len(ss) THEN <<>> ELSE ss[i] \o Flatten(ss, i + 1)

\* for a in lo..hi-1 { body(a) }
For(lo, hi, body(_)) ==
    IF hi <= lo THEN <<>> ELSE Flatten([j \in 1 .. hi - lo |-> body(lo + j - 1)], 1)

\* a usize expression whose exact value is v: in range, wrapped, or a panic
USizeXY(vx, vy, color) ==
    IF vx >= 0 /\ vy >= 0 THEN <<Plot(vx, vy, color)>>
    ELSE IF overflow_checks THEN <<Panic("panic_overflow")>>
    ELSE <<Plot(vx % USIZE, vy % USIZE, color)>>

----------------------------------------------------------------------------
(* The drawing functions' bodies, as command sequences *)

\* a.saturating_sub(b)
saturating_sub(a, b) == IF a >= b THEN a - b ELSE 0

RECURSIVE line_loop(_, _, _, _, _)
\* the `loop` of draw_line from the current point (x, y) with error err;
\* p holds dx, dy, sx, sy, x1, y1.  Returns the points visited.
line_loop(x, y, err, p, fuel) ==
    IF x = p.x1 /\ y = p.y1 THEN [pts |-> <<<<x, y>>>>, hung |-> FALSE]
    ELSE IF fuel = 0 THEN [pts |-> <<<<x, y>>>>, hung |-> TRUE]
    ELSE LET e2 == 2 * err
             stepx == e2 >= p.dy
             err1 == IF stepx THEN err + p.dy ELSE err
             nx == IF stepx THEN x + p.sx ELSE x
             stepy == e2 <= p.dx
             err2 == IF stepy THEN err1 + p.dx ELSE err1
             ny == IF stepy THEN y + p.sy ELSE y
             rest == line_loop(nx, ny, err2, p, fuel - 1)
         IN  [pts |-> <<<<x, y>>>> \o rest.pts, hung |-> rest.hung]

\* draw_line with the error term of the other Bresenham convention (dy taken positive)
line_walkErrSign(x0, y0, x1, y1) ==
    LET p == [dx |-> Abs(x1 - x0), dy |-> -Abs(y1 - y0),
              sx |-> IF x0 < x1 THEN 1 ELSE -1,
              sy |-> IF y0 < y1 THEN 1 ELSE -1,
              x1 |-> x1, y1 |-> y1]
    IN  line_loop(x0, y0, p.dx - p.dy, p, LoopFuel)

\* draw_line's set-up and loop: the points it visits, and whether it hung
line_walk(x0, y0, x1, y1) ==
    LET p == [dx |-> Abs(x1 - x0), dy |-> -Abs(y1 - y0),
              sx |-> IF x0 < x1 THEN 1 ELSE -1,
              sy |-> IF y0 < y1 THEN 1 ELSE -1,
              x1 |-> x1, y1 |-> y1]
    IN  line_loop(x0, y0, p.dx + p.dy, p, LoopFuel)

\* draw_line: plot each visited point with both coordinates non-negative
line_cmds(pts, color) ==
    Flatten([i \in 1 .. Len(pts) |->
                IF pts[i][1] >= 0 /\ pts[i][2] >= 0
                THEN <<Plot(pts[i][1], pts[i][2], color)>> ELSE <<>>], 1)

\* draw_rect
rect_cmds(x, y, width, height, color) ==
    For(0, height, LAMBDA dy : For(0, width, LAMBDA dx : <<Plot(x + dx, y + dy, color)>>))

\* draw_rect_outline
rect_outline_cmds(x, y, width, height, color, thickness) ==
    For(0, thickness, LAMBDA t : For(0, width, LAMBDA dx :
        <<Plot(x + dx, y + t, color)>>
        \o (IF y + height > t THEN <<Plot(x + dx, y + height - 1 - t, color)>> ELSE <<>>)))
    \o
    For(0, thickness, LAMBDA t : For(0, height, LAMBDA dy :
        <<Plot(x + t, y + dy, color)>>
        \o (IF x + width > t THEN <<Plot(x + width - 1 - t, y + dy, color)>> ELSE <<>>)))

\* one iteration of draw_circle's while loop: the 8 symmetric points
circle_points(cx, cy, x, y, color) ==
    Flatten([i \in 1 .. 8 |->
        LET q == << <<cx + x, cy + y>>, <<cx + y, cy + x>>, <<cx - y, cy + x>>,
                    <<cx - x, cy + y>>, <<cx - x, cy - y>>, <<cx - y, cy - x>>,
                    <<cx + y, cy - x>>, <<cx + x, cy - y>> >>[i]
        IN  IF q[1] >= 0 /\ q[2] >= 0 THEN <<Plot(q[1], q[2], color)>> ELSE <<>>], 1)

RECURSIVE circle_loop(_, _, _, _, _, _, _)
\* draw_circle's `while x >= y`
circle_loop(cx, cy, x, y, err, color, fuel) ==
    IF ~(x >= y) THEN [cmds |-> <<>>, hung |-> FALSE]
    ELSE IF fuel = 0 THEN [cmds |-> <<>>, hung |-> TRUE]
    ELSE LET y1 == y + 1
             err1 == err + 1 + 2 * y1
             dec == 2 * (err1 - x) + 1 > 0
             x1 == IF dec THEN x - 1 ELSE x
             err2 == IF dec THEN err1 + 1 - 2 * x1 ELSE err1
             rest == circle_loop(cx, cy, x1, y1, err2, color, fuel - 1)
         IN  [cmds |-> circle_points(cx, cy, x, y, color) \o rest.cmds, hung |-> rest.hung]

\* for v in lo..=hi over isize
ForIncl(lo, hi, body(_)) ==
    IF hi < lo THEN <<>> ELSE Flatten([j \in 1 .. hi - lo + 1 |-> body(lo + j - 1)], 1)

\* fill_circle
fill_circle_cmds(cx, cy, radius, color) ==
    ForIncl(-radius, radius, LAMBDA y : ForIncl(-radius, radius, LAMBDA x :
        IF x * x + y * y <= radius * radius /\ cx + x >= 0 /\ cy + y >= 0
        THEN <<Plot(cx + x, cy + y, color)>> ELSE <<>>))

\* draw_rounded_rect
rounded_rect_cmds(x, y, width, height, radius, color) ==
    For(radius, saturating_sub(height, radius), LAMBDA dy : For(0, width, LAMBDA dx :
        <<Plot(x + dx, y + dy, color)>>))
    \o
    For(0, radius, LAMBDA dy : For(radius, saturating_sub(width, radius), LAMBDA dx :
        <<Plot(x + dx, y + dy, color)>> \o USizeXY(x + dx, y + height - 1 - dy, color)))
    \o
    ForIncl(0, radius, LAMBDA cy : ForIncl(0, radius, LAMBDA cx :
        IF cx * cx + cy * cy <= radius * radius
        THEN <<Plot(x + radius - cx, y + radius - cy, color)>>
             \o (IF width > radius
                 THEN <<Plot(x + width - radius - 1 + cx, y + radius - cy, color)>>
                 ELSE <<>>)
             \o (IF height > radius
                 THEN <<Plot(x + radius - cx, y + height - radius - 1 + cy, color)>>
                 ELSE <<>>)
             \o (IF width > radius /\ height > radius
                 THEN <<Plot(x + width - radius - 1 + cx, y + height - radius - 1 + cy, color)>>
                 ELSE <<>>)
        ELSE <<>>))

\* the color of one gradient step: position pos of length len between c1 and c2
gradient_color(c1, c2, pos, len) ==
    LET r1 == Low8(Shr(c1, 16))
        g1 == Low8(Shr(c1, 8))
        b1 == Low8(c1)
        r2 == Low8(Shr(c2, 16))
        g2 == Low8(Shr(c2, 8))
        b2 == Low8(c2)
        ratio == (pos * 256) \div len
        r == (r1 * (256 - ratio) + r2 * ratio) \div 256
        g == (g1 * (256 - ratio) + g2 * ratio) \div 256
        b == (b1 * (256 - ratio) + b2 * ratio) \div 256
    IN  BitOr(BitOr(Shl(r, 16), Shl(g, 8)), b)

\* draw_gradient_vertical
gradient_vertical_cmds(x, y, width, height, color_top, color_bottom) ==
    For(0, height, LAMBDA dy : For(0, width, LAMBDA dx :
        <<Plot(x + dx, y + dy, gradient_color(color_top, color_bottom, dy, height))>>))

\* draw_gradient_horizontal
gradient_horizontal_cmds(x, y, width, height, color_left, color_right) ==
    For(0, width, LAMBDA dx : For(0, height, LAMBDA dy :
        <<Plot(x + dx, y + dy, gradient_color(color_left, color_right, dx, width))>>))

\* draw_bitmap; bitmap is a sequence of bytes
bitmap_cmds(x, y, width, height, bitmap, color) ==
    For(0, height, LAMBDA dy : For(0, width, LAMBDA dx :
        LET byte_index == (dy * width + dx) \div 8
            bit_index == 7 - ((dy * width + dx) % 8)
        IN  IF byte_index < Len(bitmap) /\ Shr(bitmap[byte_index + 1], bit_index) % 2 = 1
            THEN <<Plot(x + dx, y + dy, color)>> ELSE <<>>))

\* draw_shadow
shadow_cmds(x, y, width, height, offset, blur) ==
    For(0, height + blur * 2, LAMBDA dy : For(0, width + blur * 2, LAMBDA dx :
        LET shadow_x == x + offset + dx
            shadow_y == y + offset + dy
            dist_x == IF dx < blur THEN blur - dx
                      ELSE IF dx >= width + blur THEN dx - width - blur + 1 ELSE 0
            dist_y == IF dy < blur THEN blur - dy
                      ELSE IF dy >= height + blur THEN dy - height - blur + 1 ELSE 0
            dist == Max(dist_x, dist_y)
        IN  IF dist <= blur
            THEN IF blur = 0 THEN <<Panic("panic_div_zero")>>
                 ELSE <<Shade(shadow_x, shadow_y, ((blur - dist) * 128) \div blur)>>
            ELSE <<>>))

----------------------------------------------------------------------------
(* The public functions *)

Record(op, a, bitmap, pts, ret) ==
    [op |-> op, a |-> a, bitmap |-> bitmap, pts |-> pts, ret |-> ret]

\* every call: the program is running, and the run has calls left
Enter == status = "running" /\ budget > 0 /\ budget' = budget - 1

\* Display::get(): DISPLAY.get() .expect("Display not initialized")
Display_get == [ok |-> display.some, d |-> display]

\* a drawing function: Display::get(), then its body
Draw(op, a, bitmap, pts, hung, cmds) ==
    /\ call' = Record(op, a, bitmap, pts, 0)
    /\ IF ~Display_get.ok
       THEN status' = "panic_not_initialized" /\ display' = display
       ELSE LET r == Exec(Display_get.d, cmds, 1)
            IN  /\ display' = r.d
                /\ status' = IF r.status = "running" /\ hung THEN "hung" ELSE r.status
    /\ UNCHANGED <<boot, overflow_checks, phys>>

\* Display::init()
init ==
    /\ Enter
    /\ call' = Record("init", <<>>, <<>>, <<>>, 0)
    /\ LET r == FramebufferInfo_get(boot)
       IN  IF r.ok
           THEN display' = Display_init(r.fb) /\ status' = status
           ELSE display' = display /\ status' = "panic_unwrap_none"
    /\ UNCHANGED <<boot, overflow_checks, phys>>

\* draw_pixel that also writes through to the framebuffer (FramebufferInfo::set_pixel)
draw_pixelDirect(x, y, color) ==
    /\ Enter
    /\ call' = Record("draw_pixel", <<x, y, color>>, <<>>, <<>>, 0)
    /\ IF ~Display_get.ok
       THEN status' = "panic_not_initialized" /\ UNCHANGED <<display, phys>>
       ELSE /\ display' = Display_set_pixel(display, x, y, color)
            /\ phys' = FramebufferInfo_set_pixel(display.fb, phys, x, y, color)
            /\ status' = status
    /\ UNCHANGED <<boot, overflow_checks>>

\* pub fn draw_pixel(x, y, color)
draw_pixel(x, y, color) ==
    /\ Enter
    /\ Draw("draw_pixel", <<x, y, color>>, <<>>, <<>>, FALSE, <<Plot(x, y, color)>>)

\* Display::get().get_pixel(x, y)
get_pixel(x, y) ==
    /\ Enter
    /\ IF ~Display_get.ok
       THEN /\ status' = "panic_not_initialized"
            /\ call' = Record("get_pixel", <<x, y>>, <<>>, <<>>, 0)
       ELSE /\ status' = status
            /\ call' = Record("get_pixel", <<x, y>>, <<>>, <<>>,
                              Display_get_pixel(Display_get.d, x, y))
    /\ UNCHANGED <<boot, overflow_checks, display, phys>>

\* pub fn clear_screen(color)
clear_screen(color) ==
    /\ Enter
    /\ call' = Record("clear_screen", <<color>>, <<>>, <<>>, 0)
    /\ IF ~Display_get.ok
       THEN status' = "panic_not_initialized" /\ display' = display
       ELSE display' = Display_clear(Display_get.d, color) /\ status' = status
    /\ UNCHANGED <<boot, overflow_checks, phys>>

\* pub fn swap_buffers()
swap_buffers ==
    /\ Enter
    /\ call' = Record("swap_buffers", <<>>, <<>>, <<>>, 0)
    /\ IF ~Display_get.ok
       THEN status' = "panic_not_initialized" /\ phys' = phys
       ELSE phys' = Display_swap_buffers(Display_get.d, phys) /\ status' = status
    /\ UNCHANGED <<boot, overflow_checks, display>>

\* pub fn draw_line(x0, y0, x1, y1, color)
draw_line(x0, y0, x1, y1, color) ==
    /\ Enter
    /\ LET w == line_walk(x0, y0, x1, y1)
       IN  Draw("draw_line", <<x0, y0, x1, y1, color>>, <<>>, w.pts, w.hung,
                line_cmds(w.pts, color))

\* pub fn draw_rect(x, y, width, height, color)
draw_rect(x, y, width, height, color) ==
    /\ Enter
    /\ Draw("draw_rect", <<x, y, width, height, color>>, <<>>, <<>>, FALSE,
            rect_cmds(x, y, width, height, color))

\* pub fn draw_rect_outline(x, y, width, height, color, thickness)
draw_rect_outline(x, y, width, height, color, thickness) ==
    /\ Enter
    /\ Draw("draw_rect_outline", <<x, y, width, height, color, thickness>>, <<>>, <<>>, FALSE,
            rect_outline_cmds(x, y, width, height, color, thickness))

\* pub fn draw_circle(cx, cy, radius, color)
draw_circle(cx, cy, radius, color) ==
    /\ Enter
    /\ LET w == circle_loop(cx, cy, radius, 0, 0, color, LoopFuel)
       IN  Draw("draw_circle", <<cx, cy, radius, color>>, <<>>, <<>>, w.hung, w.cmds)

\* pub fn fill_circle(cx, cy, radius, color)
fill_circle(cx, cy, radius, color) ==
    /\ Enter
    /\ Draw("fill_circle", <<cx, cy, radius, color>>, <<>>, <<>>, FALSE,
            fill_circle_cmds(cx, cy, radius, color))

\* pub fn draw_rounded_rect(x, y, width, height, radius, color)
draw_rounded_rect(x, y, width, height, radius, color) ==
    /\ Enter
    /\ Draw("draw_rounded_rect", <<x, y, width, height, radius, color>>, <<>>, <<>>, FALSE,
            rounded_rect_cmds(x, y, width, height, radius, color))

\* pub fn draw_gradient_vertical(x, y, width, height, color_top, color_bottom)
draw_gradient_vertical(x, y, width, height, color_top, color_bottom) ==
    /\ Enter
    /\ Draw("draw_gradient_vertical", <<x, y, width, height, color_top, color_bottom>>,
            <<>>, <<>>, FALSE,
            gradient_vertical_cmds(x, y, width, height, color_top, color_bottom))

\* pub fn draw_gradient_horizontal(x, y, width, height, color_left, color_right)
draw_gradient_horizontal(x, y, width, height, color_left, color_right) ==
    /\ Enter
    /\ Draw("draw_gradient_horizontal", <<x, y, width, height, color_left, color_right>>,
            <<>>, <<>>, FALSE,
            gradient_horizontal_cmds(x, y, width, height, color_left, color_right))

\* pub fn draw_triangle(x0, y0, x1, y1, x2, y2, color): three draw_line calls
draw_triangle(x0, y0, x1, y1, x2, y2, color) ==
    /\ Enter
    /\ LET a == line_walk(x0, y0, x1, y1)
           b == line_walk(x1, y1, x2, y2)
           c == line_walk(x2, y2, x0, y0)
           pts == a.pts \o (IF a.hung THEN <<>> ELSE b.pts \o (IF b.hung THEN <<>> ELSE c.pts))
       IN  Draw("draw_triangle", <<x0, y0, x1, y1, x2, y2, color>>, <<>>, pts,
                a.hung \/ b.hung \/ c.hung, line_cmds(pts, color))

\* pub fn draw_bitmap(x, y, width, height, bitmap, color)
draw_bitmap(x, y, width, height, bitmap, color) ==
    /\ Enter
    /\ Draw("draw_bitmap", <<x, y, width, height, color>>, bitmap, <<>>, FALSE,
            bitmap_cmds(x, y, width, height, bitmap, color))

\* pub fn draw_shadow(x, y, width, height, offset, blur)
draw_shadow(x, y, width, height, offset, blur) ==
    /\ Enter
    /\ Draw("draw_shadow", <<x, y, width, height, offset, blur>>, <<>>, <<>>, FALSE,
            shadow_cmds(x, y, width, height, offset, blur))

\* a call of blend_colors(bg, fg, alpha); it does not touch the Display
call_blend_colors(bg, fg, alpha) ==
    /\ Enter
    /\ call' = Record("blend_colors", <<bg, fg, alpha>>, <<>>, <<>>, blend_colors(bg, fg, alpha))
    /\ UNCHANGED <<boot, overflow_checks, display, phys, status>>

----------------------------------------------------------------------------
(* Initial states and argument domains *)

\* the boot protocol hands over no framebuffer
NoResponse == [present |-> FALSE, width |-> 0, height |-> 0, pitch |-> 0]

\* one framebuffer: MaxDim pixels wide, pad padding words per scanline, pitch in bytes
Framebuffers(pads) ==
    {[present |-> TRUE, width |-> MaxDim, height |-> h, pitch |-> 4 * (MaxDim + pad)] :
        h \in (MaxDim - 1) .. MaxDim, pad \in pads}

\* what the physical framebuffer holds before the first present
PhysFill == {2105376}

InitWith(calls, responses, builds) ==
    /\ boot \in responses
    /\ overflow_checks \in builds
    /\ display = DisplayCell_new
    /\ \E fill \in PhysFill : phys = [i \in 1 .. (boot.pitch \div 4) * boot.height |-> fill]
    /\ status = "running"
    /\ call = Record("boot", <<>>, <<>>, <<>>, 0)
    /\ budget = calls

\* a packed color, and a word with a bit set above bit 23
TINTED == 2 ^ 24 + 128
Colors == {WHITE, TINTED}

\* the arguments worth enumerating: none once the run is over (every call needs Enter)
Live(S) == IF status = "running" /\ budget > 0 THEN S ELSE {}

\* usize positions and sizes, isize coordinates
Pos == 0 .. MaxDim
Size == 0 .. MaxDim
Coord == -1 .. MaxDim
\* endpoints of draw_line: up to two pixels outside the canvas on either side
LineCoord == -2 .. MaxDim + 1

----------------------------------------------------------------------------
(* The library as a whole: any public function, a few arguments each *)

Init == InitWith(MaxOps, Framebuffers(0 .. MaxPad) \cup {NoResponse}, BOOLEAN)

Next ==
    \/ init
    \/ \E x \in Live({0, MaxDim}), c \in Colors : draw_pixel(x, 1, c)
    \/ \E c \in Live(Colors \cup {BLACK}) : clear_screen(c)
    \/ swap_buffers
    \/ \E x0 \in Live({-1, 0}), y1 \in {0, MaxDim} : draw_line(x0, 0, MaxDim - 1, y1, WHITE)
    \/ \E w \in Live({0, 2}) : draw_rect(1, 0, w, 2, WHITE)
    \/ \E t \in Live({0, 1}) : draw_rect_outline(0, 0, MaxDim, MaxDim, WHITE, t)
    \/ \E r \in Live({0, 1}) : draw_circle(1, 1, r, WHITE)
    \/ \E r \in Live({0, 1}) : fill_circle(1, 1, r, WHITE)
    \/ \E h \in Live({0, MaxDim}), r \in {0, 1} : draw_rounded_rect(0, 0, MaxDim, h, r, WHITE)
    \/ \E w \in Live({0, 2}), c \in {BLACK, TINTED} : draw_gradient_vertical(0, 0, w, 2, WHITE, c)
    \/ \E w \in Live({0, 2}), c \in {BLACK, TINTED} : draw_gradient_horizontal(0, 0, w, 2, WHITE, c)
    \/ \E x2 \in Live({-1, 0}) : draw_triangle(0, 0, 2, 0, x2, 2, WHITE)
    \/ \E bitmap \in Live({<<>>, <<160>>}) : draw_bitmap(0, 0, 2, 2, bitmap, WHITE)
    \/ \E w \in Live({0, 1}), offset \in {0, 1}, blur \in {0, 1} : draw_shadow(0, 0, w, 1, offset, blur)
    \/ \E bg \in Live(Colors), alpha \in {0, 255} : call_blend_colors(bg, WHITE, alpha)

Spec == Init /\ [][Next]_vars

----------------------------------------------------------------------------
(* Single-operation specifications: one function over its whole bounded
   argument domain, on canvases prepared by earlier calls *)


NextPixel ==
    \/ init
    \/ \E c \in Live(Colors \cup {BLACK}) : clear_screen(c)
    \/ \E x \in Live(Pos), y \in Pos, c \in Colors \cup {BLACK} : draw_pixel(x, y, c)
    \/ \E x \in Live(Pos), y \in Pos : get_pixel(x, y)

InitPixel == InitWith(MaxShapeOps + 1, Framebuffers(0 .. MaxPad) \cup {NoResponse}, {TRUE})

SpecPixel == InitPixel /\ [][NextPixel]_vars

\* set-up calls, then one draw_line as the last call of the run
NextLine ==
    \/ init
    \/ \E c \in Live({TINTED}) : clear_screen(c)
    \/ \E x \in Live({0, MaxDim - 1}), y \in {0, 1} : draw_pixel(x, y, TINTED)
    \/ \E x0 \in Live(LineCoord), y0 \in LineCoord, x1 \in LineCoord, y1 \in LineCoord :
          budget = 1 /\ draw_line(x0, y0, x1, y1, WHITE)

InitLine == InitWith(MaxShapeOps + 1, Framebuffers({0}), {TRUE})

SpecLine == InitLine /\ [][NextLine]_vars

NextOutline ==
    \/ init
    \/ \E c \in Live({TINTED}) : clear_screen(c)
    \/ \E x \in Live(0 .. 1), y \in 0 .. 1, w \in Size, h \in Size, t \in 0 .. 2 :
          draw_rect_outline(x, y, w, h, WHITE, t)

InitOutline == InitWith(MaxShapeOps + 1, Framebuffers({0}), {TRUE})

SpecOutline == InitOutline /\ [][NextOutline]_vars

NextRounded ==
    \/ init
    \/ \E c \in Live({TINTED}) : clear_screen(c)
    \/ \E x \in Live(0 .. 1), y \in 0 .. 1, w \in Size, h \in Size, r \in 0 .. 2 :
          draw_rounded_rect(x, y, w, h, r, WHITE)

InitRounded == InitWith(MaxShapeOps + 1, Framebuffers({0}), BOOLEAN)

SpecRounded == InitRounded /\ [][NextRounded]_vars

\* channel values and words for blend_colors
Channels == {0, 1, 128, 255}
Words == {top * 16777216 + r * 65536 + g * 256 + b :
            r \in Channels, g \in Channels, b \in Channels, top \in {0, 127}}
Alphas == {0, 1, 127, 128, 254, 255}

InitBlend == InitWith(1, Framebuffers({0}), {TRUE})

NextBlend == \E bg \in Live(Words), fg \in Words, alpha \in Alphas : call_blend_colors(bg, fg, alpha)

SpecBlend == InitBlend /\ [][NextBlend]_vars

----------------------------------------------------------------------------
(* Properties *)

W == display.fb.width
H == display.fb.height
\* index of pixel (x, y) in the back buffer, row-major with stride width
At(x, y) == y * W + x + 1
Canvas == (0 .. W - 1) \X (0 .. H - 1)
\* the operations that reach the instance through Display::get
GetOps == {"draw_pixel", "get_pixel", "clear_screen", "swap_buffers", "draw_line",
           "draw_rect", "draw_rect_outline", "draw_circle", "fill_circle",
           "draw_rounded_rect", "draw_gradient_vertical", "draw_gradient_horizontal",
           "draw_triangle", "draw_bitmap", "draw_shadow"}

\* C1: after present() the physical word at y*stride + x equals the back-buffer
\* word at y*width + x, for every pixel of the canvas, whatever the stride.
C1_PresentReproducesRows ==
    (call.op = "swap_buffers" /\ status = "running") =>
        \A q \in Canvas :
            phys[q[2] * display.fb.pitch + q[1] + 1] = display.back_buffer[At(q[1], q[2])]

\* C2: every back-buffer word has its top 8 bits zero, whatever colors the
\* drawing operations were called with.
C2_TopBitsZero ==
    \A i \in 1 .. Len(display.back_buffer) : display.back_buffer[i] < 2 ^ 24

\* pixel (px, py) lies in the rectangle [x, x+w) x [y, y+h)
InRect(px, py, x, y, w, h) == x <= px /\ px < x + w /\ y <= py /\ py < y + h

\* pixel (px, py) of the rectangle lies within t-1 pixels of one of its four edges
InRing(px, py, x, y, w, h, t) ==
    /\ InRect(px, py, x, y, w, h)
    /\ \/ px - x <= t - 1
       \/ (x + w - 1) - px <= t - 1
       \/ py - y <= t - 1
       \/ (y + h - 1) - py <= t - 1

\* C3: draw_rect_outline(x, y, W, H, color, t) with t >= 1 writes color to exactly
\* the in-canvas pixels of the rectangle within t-1 pixels of an edge, and changes
\* no other pixel.
C3_OutlineIsRing ==
    [][(call'.op = "draw_rect_outline" /\ display.some /\ call'.a[6] >= 1) =>
        \A q \in Canvas :
            display'.back_buffer[At(q[1], q[2])] =
                IF InRing(q[1], q[2], call'.a[1], call'.a[2], call'.a[3], call'.a[4], call'.a[6])
                THEN call'.a[5]
                ELSE display.back_buffer[At(q[1], q[2])]]_vars

\* C4: once init has completed, every operation completes: it never aborts and
\* never hangs.
C4_AlwaysCompletes == display.some => status = "running"

\* C5: an operation that goes through Display::get before init has completed aborts
\* without writing anything; once init has completed Display::get never aborts, the
\* back buffer has exactly width*height words, all zero right after init, and its
\* length never changes.
C5_InitLifecycle ==
    /\ [](display.some =>
            /\ status # "panic_not_initialized"
            /\ Len(display.back_buffer) = W * H)
    /\ [][(~display.some /\ call'.op \in GetOps) =>
            /\ status' = "panic_not_initialized"
            /\ display' = display
            /\ phys' = phys]_vars
    /\ [][(call'.op = "init" /\ status' = "running") =>
            /\ display'.some
            /\ display'.back_buffer =
                 [i \in 1 .. display'.fb.width * display'.fb.height |-> 0]]_vars
    /\ [][(display.some /\ call'.op # "init") =>
            /\ display'.some
            /\ display'.fb = display.fb
            /\ Len(display'.back_buffer) = Len(display.back_buffer)]_vars

\* an operation was called before init and aborted
C5_Witness ==
    /\ ~display.some
    /\ call.op = "draw_rect"
    /\ status = "panic_not_initialized"

\* C6: set_pixel(x, y, c) in bounds changes exactly pixel (x, y), and a following
\* get_pixel(x, y) returns c; out of bounds it changes nothing and raises no error,
\* and get_pixel(x, y) returns 0.
C6_SetPixelFrame ==
    /\ [][(call'.op = "draw_pixel" /\ display.some) =>
            /\ status' = "running"
            /\ IF call'.a[1] < W /\ call'.a[2] < H
               THEN display' = [display EXCEPT
                                   !.back_buffer[At(call'.a[1], call'.a[2])] = call'.a[3]]
               ELSE display' = display]_vars
    /\ [][(/\ call.op = "draw_pixel" /\ call'.op = "get_pixel" /\ display.some
           /\ call'.a[1] = call.a[1] /\ call'.a[2] = call.a[2]) =>
            /\ status' = "running"
            /\ call'.ret = IF call.a[1] < W /\ call.a[2] < H THEN call.a[3] ELSE 0]_vars

\* a pixel of the last row was set and then read back
C6_Witness ==
    /\ call.op = "get_pixel"
    /\ call.ret = TINTED
    /\ display.some
    /\ call.a[2] = H - 1
    /\ display.back_buffer[At(call.a[1], call.a[2])] = TINTED
    /\ Cardinality({i \in 1 .. Len(display.back_buffer) : display.back_buffer[i] = 0})
         = Len(display.back_buffer) - 1

\* C7: draw_line terminates at (x1, y1); the points it visits start at (x0, y0), end
\* at (x1, y1), number max(|x1-x0|, |y1-y0|) + 1 and move by at most 1 in each
\* coordinate; color is written to exactly the visited points inside the canvas and
\* every other pixel is unchanged.
C7_LineContract ==
    [][(call'.op = "draw_line" /\ display.some) =>
        LET x0 == call'.a[1]
            y0 == call'.a[2]
            x1 == call'.a[3]
            y1 == call'.a[4]
            pts == call'.pts
            n == Len(pts)
        IN  /\ status' = "running"
            /\ pts[1] = <<x0, y0>>
            /\ pts[n] = <<x1, y1>>
            /\ n = Max(Abs(x1 - x0), Abs(y1 - y0)) + 1
            /\ \A i \in 1 .. n - 1 :
                  /\ Abs(pts[i + 1][1] - pts[i][1]) <= 1
                  /\ Abs(pts[i + 1][2] - pts[i][2]) <= 1
            /\ Len(display'.back_buffer) = Len(display.back_buffer)
            /\ \A q \in Canvas :
                  display'.back_buffer[At(q[1], q[2])] =
                      IF \E i \in 1 .. n : pts[i] = q
                      THEN call'.a[5]
                      ELSE display.back_buffer[At(q[1], q[2])]]_vars

\* a line that starts left of the canvas was drawn over a cleared canvas
C7_Witness ==
    /\ call.op = "draw_line"
    /\ status = "running"
    /\ call.a[1] < 0
    /\ call.a[2] # call.a[4]
    /\ Len(call.pts) >= 3
    /\ \E i \in 1 .. Len(display.back_buffer) : display.back_buffer[i] = WHITE
    /\ \E i \in 1 .. Len(display.back_buffer) : display.back_buffer[i] = TINTED

\* the channels of a word
Red(v) == Low8(Shr(v, 16))
Green(v) == Low8(Shr(v, 8))
Blue(v) == Low8(v)
\* (bg_channel*(255-alpha) + fg_channel*alpha) / 255
Mix(b, f, alpha) == (b * (255 - alpha) + f * alpha) \div 255

\* what C8 says of every alpha: each result channel is the truncated mix,
\* within 0..255, and nothing spills into a neighbouring channel
ChannelsMixed(bg, fg, alpha, ret) ==
    /\ Mix(Red(bg), Red(fg), alpha) \in 0 .. 255
    /\ Mix(Green(bg), Green(fg), alpha) \in 0 .. 255
    /\ Mix(Blue(bg), Blue(fg), alpha) \in 0 .. 255
    /\ ret = Mix(Red(bg), Red(fg), alpha) * 65536 + Mix(Green(bg), Green(fg), alpha) * 256
             + Mix(Blue(bg), Blue(fg), alpha)

NearFg(fg, ret) ==
    /\ Abs(Red(ret) - Red(fg)) <= 1
    /\ Abs(Green(ret) - Green(fg)) <= 1
    /\ Abs(Blue(ret) - Blue(fg)) <= 1

\* C8 as claimed: for every pair of 32-bit words, blend_colors(bg, fg, 0) = bg,
\* blend_colors(bg, fg, 255) is fg up to 1 per channel, and every channel is the
\* truncated mix.
C8_BlendAsClaimed ==
    call.op = "blend_colors" =>
        /\ call.a[3] = 0 => call.ret = call.a[1]
        /\ call.a[3] = 255 => NearFg(call.a[2], call.ret)
        /\ ChannelsMixed(call.a[1], call.a[2], call.a[3], call.ret)

\* C8 (amended): blend_colors(bg, fg, 0) is bg with its top 8 bits cleared (bg itself
\* when bg is a packed color); blend_colors(bg, fg, 255) is fg up to 1 per channel;
\* every channel is the truncated mix, within 0..255, with no spill.
C8_BlendContract ==
    call.op = "blend_colors" =>
        /\ call.a[3] = 0 => call.ret = call.a[1] % (2 ^ 24)
        /\ (call.a[3] = 0 /\ call.a[1] < 2 ^ 24) => call.ret = call.a[1]
        /\ call.a[3] = 255 => NearFg(call.a[2], call.ret)
        /\ ChannelsMixed(call.a[1], call.a[2], call.a[3], call.ret)

\* blend_colors was called with alpha 0 and a background word with high bits set
C8_Witness ==
    /\ call.op = "blend_colors"
    /\ call.a[3] = 0
    /\ call.a[1] >= 2 ^ 24
    /\ call.ret # 0

\* C9: every pixel draw_rounded_rect writes lies inside [x, x+width) x [y, y+height);
\* pixels outside that rectangle are unchanged.
C9_RoundedStaysInside ==
    [][(call'.op = "draw_rounded_rect" /\ display.some) =>
        \A q \in Canvas :
            InRect(q[1], q[2], call'.a[1], call'.a[2], call'.a[3], call'.a[4])
            \/ display'.back_buffer[At(q[1], q[2])] = display.back_buffer[At(q[1], q[2])]]_vars

\* C10: only present() changes the physical framebuffer, and present() leaves the
\* back buffer unchanged.
C10_PhysOnlyByPresent ==
    [][/\ call'.op # "swap_buffers" => phys' = phys
       /\ call'.op = "swap_buffers" => display' = display]_vars

\* a shape was drawn after a present: the framebuffer still shows the presented frame
C10_Witness ==
    /\ call.op = "draw_rect"
    /\ status = "running"
    /\ \A i \in 1 .. Len(display.back_buffer) : phys[i] = 0
    /\ \E i \in 1 .. Len(display.back_buffer) : display.back_buffer[i] = WHITE

====
